---- MODULE Spec2Model ----
(***************************************************************************)
(* The GameBoard component of mr-x-chase and the three tables of the       *)
(* remote store it talks to (games, players, moves).  Every browser client *)
(* runs its own GameBoard; the store is shared.  Each store request of an  *)
(* async handler is one step, so the handlers of different clients (and    *)
(* several invocations of one client) interleave at their awaits.          *)
(***************************************************************************)
EXTENDS Integers, Sequences, FiniteSets, TLC

\* ---------------------------------------------------------------- bounds
\* handleMove invocations started in one run
MaxCalls == 2
\* tickets a player holds, of the one kind it holds, when the run begins
InitTickets == 1
\* fetchGameData runs of one client that await their answers together
MaxFetches == 2

\* ---------------------------------------------------------- the universe
\* null where a row is expected, and where a transport kind is expected
null == [null |-> TRUE]
noTransport == "null"

\* the handleMove invocations that can be in flight together, each in a
\* slot of its own; a slot is free again when its invocation has returned
Slots == {1, 2}

Clients == {"c1", "c2"}

\* the userId prop of each client's GameBoard
userId(c) == IF c = "c1" THEN "uA" ELSE "uB"

\* Enums.transport_type
TransportType == {"taxi", "bus", "underground", "black"}

\* the external map service: stations and, per station, the stations
\* reachable by each base transport kind
Nodes == {10, 15}

getAllAvailableMoves(position) ==
  IF position = 10
  THEN [taxi |-> <<15>>, bus |-> <<15>>, underground |-> << >>]
  ELSE [taxi |-> <<10>>, bus |-> <<10>>, underground |-> <<10>>]

\* `${transport}_tickets`
ticketField(transport) ==
  CASE transport = "taxi" -> "taxi_tickets"
    [] transport = "bus" -> "bus_tickets"
    [] transport = "underground" -> "underground_tickets"
    [] transport = "black" -> "black_tickets"

\* a players row (lines 101-113) holding tickets of one kind only
PlayerRow(id, user, role, position, at, kind) ==
  [id |-> id, user_id |-> user, role |-> role, current_position |-> position,
   created_at |-> at,
   taxi_tickets |-> IF kind = "taxi" THEN InitTickets ELSE 0,
   bus_tickets |-> IF kind = "bus" THEN InitTickets ELSE 0,
   underground_tickets |-> IF kind = "underground" THEN InitTickets ELSE 0,
   black_tickets |-> IF kind = "black" THEN InitTickets ELSE 0]

\* the roster when the run begins: Mr. X joined first, a detective second
InitPlayers == << PlayerRow("A", "uA", "mr_x", 10, 1, "taxi"),
                 PlayerRow("B", "uB", "detective", 15, 2, "bus") >>

\* ------------------------------------------------------------- the state
VARIABLES
  dbGame,            \* the games row of this game
  dbPlayers,         \* the players rows of this game, in insertion order
  dbMoves,           \* the moves rows of this game, in insertion order
  game,              \* per client: useState game
  players,           \* per client: useState players
  currentPlayer,     \* per client: useState currentPlayer
  moves,             \* per client: useState moves
  selectedTransport, \* per client: useState selectedTransport
  availableMoves,    \* per client: useState availableMoves
  calls,             \* per slot: the handleMove invocation in flight
  started,           \* handleMove invocations started so far
  fetches            \* per client: its fetchGameData runs that await their
                     \* answers, and what its latest run read

vars == <<dbGame, dbPlayers, dbMoves, game, players, currentPlayer, moves,
          selectedTransport, availableMoves, calls, started, fetches>>

store == <<dbGame, dbPlayers, dbMoves>>
local == <<game, players, currentPlayer, moves>>

\* ------------------------------------------------------- store queries
\* insert x into the sequence s, sorted ascending by created_at, after the
\* rows with the same created_at
InsertByCreatedAt(s, x) ==
  LET before == SelectSeq(s, LAMBDA y : y.created_at <= x.created_at)
      after == SelectSeq(s, LAMBDA y : y.created_at > x.created_at)
  IN before \o <<x>> \o after

RECURSIVE OrderByCreatedAt(_)
\* .order('created_at', { ascending: true })
OrderByCreatedAt(rows) ==
  IF rows = << >> THEN << >>
  ELSE InsertByCreatedAt(OrderByCreatedAt(SubSeq(rows, 1, Len(rows) - 1)),
                         rows[Len(rows)])

\* playersRes.data.find(p => p.user_id === userId) || null
FindByUser(rows, user) ==
  LET hits == {i \in 1..Len(rows) : rows[i].user_id = user}
  IN IF hits = {} THEN null
     ELSE rows[CHOOSE i \in hits : \A j \in hits : i <= j]

\* the reveal schedule with its second clause left out
isMrXRevealTurnNoFirst(turn) == turn % 3 = 0

\* line 496, as a function of the current_turn of the rendered game
isMrXRevealTurn(turn) == turn % 3 = 0 \/ turn = 1

\* ------------------------------------------------------------ render
\* lines 481-483: the board is rendered only once game and currentPlayer are set
Rendered(c) == game[c] # null /\ currentPlayer[c] # null

\* lines 486-489, the render path of client c
sortedPlayersOf(c) == OrderByCreatedAt(players[c])
activePlayerOf(c) ==
  sortedPlayersOf(c)[(game[c].current_turn % Len(sortedPlayersOf(c))) + 1]
isMyTurn(c) ==
  game[c].status = "in_progress" /\ currentPlayer[c].id = activePlayerOf(c).id

\* line 520: the showMrX prop of GameMap
showMrX(c) ==
  currentPlayer[c].role = "mr_x" \/ isMrXRevealTurn(game[c].current_turn)

\* lines 551-591: the ticket button of a kind is shown and enabled
ButtonEnabled(c, transport) ==
  /\ Rendered(c)
  /\ isMyTurn(c)
  /\ currentPlayer[c][ticketField(transport)] # 0
  /\ (transport = "black" => currentPlayer[c].role = "mr_x")

\* GameMap: the stations it lets the user click are those of availableMoves
StationClickable(c, toPosition) ==
  \E k \in 1..Len(availableMoves[c]) : availableMoves[c][k] = toPosition

\* ------------------------------------------------------------ Init
Idle == [pc |-> "idle"]
NoFetches == [running |-> << >>, latest |-> null]

Init ==
  /\ dbGame = [status |-> "waiting", current_turn |-> 0, mr_x_player |-> "uA"]
  /\ dbPlayers = InitPlayers
  /\ dbMoves = << >>
  /\ game = [c \in Clients |-> null]
  /\ players = [c \in Clients |-> << >>]
  /\ currentPlayer = [c \in Clients |-> null]
  /\ moves = [c \in Clients |-> << >>]
  /\ selectedTransport = [c \in Clients |-> noTransport]
  /\ availableMoves = [c \in Clients |-> << >>]
  /\ calls = [s \in Slots |-> Idle]
  /\ started = 0
  /\ fetches = [c \in Clients |-> NoFetches]

\* ------------------------------------------------------- fetchGameData
\* fetchGameData written as a patch: the moves it reads are added to the
\* moves it holds
fetchGameDataPatching(c, okGame, okPlayers, okMoves) ==
  LET playersData == OrderByCreatedAt(dbPlayers)
  IN /\ game' = [game EXCEPT ![c] = IF okGame THEN dbGame ELSE @]
     /\ players' = [players EXCEPT ![c] = IF okPlayers THEN playersData ELSE @]
     /\ currentPlayer' = [currentPlayer EXCEPT ![c] =
                            IF okPlayers THEN FindByUser(playersData, userId(c)) ELSE @]
     /\ moves' = [moves EXCEPT ![c] = IF okMoves THEN @ \o dbMoves ELSE @]

\* lines 340-354, called on mount, on a change notification and at the end
\* of handleMove: the three selects are answered, each with its rows or, on
\* a failure of its own, with data null, and the answers are put in the state
fetchGameData(c, okGame, okPlayers, okMoves) ==
  LET playersData == OrderByCreatedAt(dbPlayers)
  IN /\ game' = [game EXCEPT ![c] = IF okGame THEN dbGame ELSE @]
     /\ players' = [players EXCEPT ![c] = IF okPlayers THEN playersData ELSE @]
     /\ currentPlayer' = [currentPlayer EXCEPT ![c] =
                            IF okPlayers THEN FindByUser(playersData, userId(c)) ELSE @]
     /\ moves' = [moves EXCEPT ![c] = IF okMoves THEN dbMoves ELSE @]

\* lines 326 and 330-332
Refresh(c, okGame, okPlayers, okMoves) ==
  /\ fetchGameData(c, okGame, okPlayers, okMoves)
  /\ UNCHANGED <<store, selectedTransport, availableMoves, calls, started, fetches>>

\* ------------------------------------------------ handleTransportSelect
\* lines 362-370
Candidates(position, transport) ==
  LET allMoves == getAllAvailableMoves(position)
  IN CASE transport = "taxi" -> allMoves.taxi
       [] transport = "bus" -> allMoves.bus
       [] transport = "underground" -> allMoves.underground
       [] transport = "black" -> allMoves.taxi \o allMoves.bus \o allMoves.underground

\* lines 356-373, clicked on an enabled ticket button
handleTransportSelect(c, transport) ==
  /\ ButtonEnabled(c, transport)
  /\ selectedTransport' = [selectedTransport EXCEPT ![c] = transport]
  /\ availableMoves' = [availableMoves EXCEPT ![c] =
                          Candidates(currentPlayer[c].current_position, transport)]
  /\ UNCHANGED <<store, local, calls, started, fetches>>

\* ------------------------------------------------------------ startGame
\* startGame with the check of players.length left out
startGameUncounted(c, ok) ==
  /\ Rendered(c)
  /\ game[c].status = "waiting"
  /\ game[c].mr_x_player = userId(c)
  /\ dbGame' = IF ok THEN [dbGame EXCEPT !.status = "in_progress"] ELSE dbGame
  /\ UNCHANGED <<dbPlayers, dbMoves, local, selectedTransport, availableMoves,
                 calls, started, fetches>>

\* lines 471-479, clicked on the Start Game button of lines 538-542
startGame(c, ok) ==
  /\ Rendered(c)
  /\ game[c].status = "waiting"
  /\ game[c].mr_x_player = userId(c)
  /\ IF Len(players[c]) < 2
     THEN UNCHANGED dbGame
     ELSE dbGame' = IF ok THEN [dbGame EXCEPT !.status = "in_progress"] ELSE dbGame
  /\ UNCHANGED <<dbPlayers, dbMoves, local, selectedTransport, availableMoves,
                 calls, started, fetches>>

\* ------------------------------------------------------------ handleMove
\* the invocation in slot i
Call(i) == calls[i]
At(i, pc) == calls[i].pc = pc

\* the invocation returns; restore is line 396, 409, 428 or 467
Return(i, restore) ==
  /\ calls' = [calls EXCEPT ![i] = Idle]
  /\ selectedTransport' =
       IF restore
       THEN [selectedTransport EXCEPT ![Call(i).client] = Call(i).tempTransport]
       ELSE selectedTransport

\* lines 375-384: a station is clicked; the invocation keeps the
\* currentPlayer, selectedTransport and game of the render it was made in
handleMove(c, toPosition) ==
  /\ started < MaxCalls
  /\ Rendered(c)
  /\ StationClickable(c, toPosition)
  /\ selectedTransport[c] # noTransport
  /\ \E i \in Slots :
       /\ At(i, "idle")
       /\ \A j \in Slots : At(j, "idle") => i <= j
       /\ calls' = [calls EXCEPT ![i] =
            [client |-> c, pc |-> "fetchGame", toPosition |-> toPosition,
             tempTransport |-> selectedTransport[c],
             currentPlayer |-> currentPlayer[c],
             latestGame |-> null, wrote |-> {}]]
  /\ started' = started + 1
  /\ selectedTransport' = [selectedTransport EXCEPT ![c] = noTransport]
  /\ availableMoves' = [availableMoves EXCEPT ![c] = << >>]
  /\ UNCHANGED <<store, local, fetches>>

\* lines 388-398: the games select is answered
HM_FetchGame(i, ok) ==
  /\ At(i, "fetchGame")
  /\ IF ok
     THEN /\ calls' = [calls EXCEPT ![i].pc = "fetchPlayers", ![i].latestGame = dbGame]
          /\ UNCHANGED selectedTransport
     ELSE Return(i, TRUE)
  /\ UNCHANGED <<store, local, availableMoves, started, fetches>>

\* the turn check left out
NotActiveDropped(cp, latestGame, latestPlayers) == FALSE

\* lines 413-418
NotActive(cp, latestGame, latestPlayers) ==
  LET sortedPlayers == latestPlayers
      currentTurnIndex == latestGame.current_turn % Len(sortedPlayers)
      activePlayer == sortedPlayers[currentTurnIndex + 1]
  IN cp.id # activePlayer.id

\* the ticket check written with < for <=
NoTicketStrict(cp, tempTransport) == cp[ticketField(tempTransport)] < 0

\* lines 423-426
NoTicket(cp, tempTransport) ==
  LET currentTickets == cp[ticketField(tempTransport)]
  IN currentTickets <= 0

\* lines 401-430: the players select is answered, then the turn check and
\* the ticket check; with no rows, line 418 throws to the catch of line 465
HM_FetchPlayers(i, ok) ==
  /\ At(i, "fetchPlayers")
  /\ IF ~ok
     THEN Return(i, TRUE)
     ELSE LET latestPlayers == OrderByCreatedAt(dbPlayers)
          IN IF latestPlayers = << >>
             THEN Return(i, TRUE)
             ELSE IF NotActive(Call(i).currentPlayer, Call(i).latestGame, latestPlayers)
             THEN Return(i, FALSE)
             ELSE IF NoTicket(Call(i).currentPlayer, Call(i).tempTransport)
             THEN Return(i, TRUE)
             ELSE /\ calls' = [calls EXCEPT ![i].pc = "insertMove"]
                  /\ UNCHANGED selectedTransport
  /\ UNCHANGED <<store, local, availableMoves, started, fetches>>

\* the inserted row with revealed set from the turn alone
NewMoveAnyRole(cp, latestGame, tempTransport, toPosition) ==
  [player_id |-> cp.id,
   from_position |-> cp.current_position,
   to_position |-> toPosition,
   transport |-> tempTransport,
   turn_number |-> latestGame.current_turn,
   revealed |-> (latestGame.current_turn % 3 = 0 \/ latestGame.current_turn = 1)]

\* lines 433-441: the row handleMove inserts
NewMove(cp, latestGame, tempTransport, toPosition) ==
  [player_id |-> cp.id,
   from_position |-> cp.current_position,
   to_position |-> toPosition,
   transport |-> tempTransport,
   turn_number |-> latestGame.current_turn,
   revealed |-> (cp.role = "mr_x" /\ (latestGame.current_turn % 3 = 0
                                      \/ latestGame.current_turn = 1))]

\* lines 433-441: the insert is answered; its error is not looked at
HM_InsertMove(i, ok) ==
  /\ At(i, "insertMove")
  /\ dbMoves' = IF ok
                THEN Append(dbMoves, NewMove(Call(i).currentPlayer, Call(i).latestGame,
                                             Call(i).tempTransport, Call(i).toPosition))
                ELSE dbMoves
  /\ calls' = [calls EXCEPT ![i].pc = "updatePlayer",
                            ![i].wrote = IF ok THEN @ \cup {"move"} ELSE @]
  /\ UNCHANGED <<dbGame, dbPlayers, local, selectedTransport, availableMoves, started, fetches>>

\* lines 444-447: the patch of the players row
PlayerUpdates(row, cp, tempTransport, toPosition) ==
  [row EXCEPT !.current_position = toPosition,
              ![ticketField(tempTransport)] = cp[ticketField(tempTransport)] - 1]

\* line 449: the players update is answered; its error is not looked at
HM_UpdatePlayer(i, ok) ==
  /\ At(i, "updatePlayer")
  /\ dbPlayers' = IF ok
                  THEN [k \in 1..Len(dbPlayers) |->
                          IF dbPlayers[k].id = Call(i).currentPlayer.id
                          THEN PlayerUpdates(dbPlayers[k], Call(i).currentPlayer,
                                             Call(i).tempTransport, Call(i).toPosition)
                          ELSE dbPlayers[k]]
                  ELSE dbPlayers
  /\ calls' = [calls EXCEPT ![i].pc = "updateGame",
                            ![i].wrote = IF ok THEN @ \cup {"player"} ELSE @]
  /\ UNCHANGED <<dbGame, dbMoves, local, selectedTransport, availableMoves, started, fetches>>

\* line 455: the value the games update writes
NextTurn(latestGame) == latestGame.current_turn + 1

\* lines 452-468: the games update is answered; an error is thrown to the
\* catch, which restores the selection
HM_UpdateGame(i, ok) ==
  /\ At(i, "updateGame")
  /\ IF ok
     THEN /\ dbGame' = [dbGame EXCEPT !.current_turn = NextTurn(Call(i).latestGame)]
          /\ calls' = [calls EXCEPT ![i].pc = "refresh", ![i].wrote = @ \cup {"game"}]
          /\ UNCHANGED selectedTransport
     ELSE /\ UNCHANGED dbGame
          /\ Return(i, TRUE)
  /\ UNCHANGED <<dbPlayers, dbMoves, local, availableMoves, started, fetches>>

\* line 464: handleMove ends in fetchGameData
HM_Refresh(i, okGame, okPlayers, okMoves) ==
  /\ At(i, "refresh")
  /\ fetchGameData(Call(i).client, okGame, okPlayers, okMoves)
  /\ Return(i, FALSE)
  /\ UNCHANGED <<store, availableMoves, started, fetches>>

\* ------------------------------------------------------------ Next
\* Every request of handleMove and of startGame is answered with or without
\* an error.  The selects of fetchGameData are answered with rows: a select
\* of it that fails leaves that part of the client's copy as old as it was.
Next ==
  \/ \E c \in Clients : Refresh(c, TRUE, TRUE, TRUE)
  \/ \E c \in Clients, t \in TransportType : handleTransportSelect(c, t)
  \/ \E c \in Clients, ok \in BOOLEAN : startGame(c, ok)
  \/ \E c \in Clients, n \in Nodes : handleMove(c, n)
  \/ \E i \in Slots, ok \in BOOLEAN : HM_FetchGame(i, ok)
  \/ \E i \in Slots, ok \in BOOLEAN : HM_FetchPlayers(i, ok)
  \/ \E i \in Slots, ok \in BOOLEAN : HM_InsertMove(i, ok)
  \/ \E i \in Slots, ok \in BOOLEAN : HM_UpdatePlayer(i, ok)
  \/ \E i \in Slots, ok \in BOOLEAN : HM_UpdateGame(i, ok)
  \/ \E i \in Slots : HM_Refresh(i, TRUE, TRUE, TRUE)

Spec == Init /\ [][Next]_vars

\* the same clients with a store that answers every request without an error
NextReliable ==
  \/ \E c \in Clients : Refresh(c, TRUE, TRUE, TRUE)
  \/ \E c \in Clients, t \in TransportType : handleTransportSelect(c, t)
  \/ \E c \in Clients : startGame(c, TRUE)
  \/ \E c \in Clients, n \in Nodes : handleMove(c, n)
  \/ \E i \in Slots : HM_FetchGame(i, TRUE)
  \/ \E i \in Slots : HM_FetchPlayers(i, TRUE)
  \/ \E i \in Slots : HM_InsertMove(i, TRUE)
  \/ \E i \in Slots : HM_UpdatePlayer(i, TRUE)
  \/ \E i \in Slots : HM_UpdateGame(i, TRUE)
  \/ \E i \in Slots : HM_Refresh(i, TRUE, TRUE, TRUE)

SpecReliable == Init /\ [][NextReliable]_vars

\* ------------------------------------------------- fetchGameData, awaited
\* lines 341-345 and 348: what the three selects of fetchGameData answer to
\* client c now, and the currentPlayer found in it
Fetched(c) ==
  [game |-> dbGame,
   players |-> OrderByCreatedAt(dbPlayers),
   currentPlayer |-> FindByUser(OrderByCreatedAt(dbPlayers), userId(c)),
   moves |-> dbMoves]

\* lines 326 and 330-332: fetchGameData is called on mount and on every
\* change event; an event is on its way to client c while the store is not
\* what the latest run of c read.  The run reads the store and awaits.
FetchStart(c) ==
  /\ Len(fetches[c].running) < MaxFetches
  /\ fetches[c].latest # Fetched(c)
  /\ fetches' = [fetches EXCEPT ![c] =
                   [running |-> Append(@.running, Fetched(c)), latest |-> Fetched(c)]]
  /\ UNCHANGED <<store, local, selectedTransport, availableMoves, calls, started>>

\* lines 347-353: the answers of the k-th awaiting run of client c arrive
\* and are put in the state
FetchDone(c, k) ==
  /\ k \in 1..Len(fetches[c].running)
  /\ LET res == fetches[c].running[k]
     IN /\ game' = [game EXCEPT ![c] = res.game]
        /\ players' = [players EXCEPT ![c] = res.players]
        /\ currentPlayer' = [currentPlayer EXCEPT ![c] = res.currentPlayer]
        /\ moves' = [moves EXCEPT ![c] = res.moves]
  /\ fetches' = [fetches EXCEPT ![c].running =
                   [j \in 1..(Len(@) - 1) |-> IF j < k THEN @[j] ELSE @[j + 1]]]
  /\ UNCHANGED <<store, selectedTransport, availableMoves, calls, started>>

NextFetch ==
  \/ \E c \in Clients : FetchStart(c)
  \/ \E c \in Clients, k \in 1..MaxFetches : FetchDone(c, k)
  \/ \E c \in Clients, t \in TransportType : handleTransportSelect(c, t)
  \/ \E c \in Clients : startGame(c, TRUE)
  \/ \E c \in Clients, n \in Nodes : handleMove(c, n)
  \/ \E i \in Slots : HM_FetchGame(i, TRUE)
  \/ \E i \in Slots : HM_FetchPlayers(i, TRUE)
  \/ \E i \in Slots : HM_InsertMove(i, TRUE)
  \/ \E i \in Slots : HM_UpdatePlayer(i, TRUE)
  \/ \E i \in Slots : HM_UpdateGame(i, TRUE)
  \/ \E i \in Slots : HM_Refresh(i, TRUE, TRUE, TRUE)

\* the next request of the handleMove in slot i is answered
HM_Step(i) ==
  \/ HM_FetchGame(i, TRUE)
  \/ HM_FetchPlayers(i, TRUE)
  \/ HM_InsertMove(i, TRUE)
  \/ HM_UpdatePlayer(i, TRUE)
  \/ HM_UpdateGame(i, TRUE)
  \/ HM_Refresh(i, TRUE, TRUE, TRUE)

\* every change event is delivered, every run of fetchGameData gets its
\* answers and every handleMove runs to its end
FairFetch ==
  /\ \A c \in Clients :
       /\ WF_vars(FetchStart(c))
       /\ WF_vars(\E k \in 1..MaxFetches : FetchDone(c, k))
  /\ \A i \in Slots : WF_vars(HM_Step(i))

SpecFetch == Init /\ [][NextFetch]_vars /\ FairFetch

\* ------------------------------------------------- rosters with ties
\* the rosters a game can begin with: the detective joined after Mr. X or at
\* the same created_at, and the store holds the two rows in either order
Rosters ==
  {r \in [1..2 -> {PlayerRow("A", "uA", "mr_x", 10, 1, "taxi")}
                    \cup {PlayerRow("B", "uB", "detective", 15, at, "bus") : at \in {1, 2}}] :
     r[1].id # r[2].id}

InitRoster ==
  /\ dbGame = [status |-> "waiting", current_turn |-> 0, mr_x_player |-> "uA"]
  /\ dbPlayers \in Rosters
  /\ dbMoves = << >>
  /\ game = [c \in Clients |-> null]
  /\ players = [c \in Clients |-> << >>]
  /\ currentPlayer = [c \in Clients |-> null]
  /\ moves = [c \in Clients |-> << >>]
  /\ selectedTransport = [c \in Clients |-> noTransport]
  /\ availableMoves = [c \in Clients |-> << >>]
  /\ calls = [s \in Slots |-> Idle]
  /\ started = 0
  /\ fetches = [c \in Clients |-> NoFetches]

\* lines 343 and 404 order by created_at and by nothing else: which of two
\* rows with the same created_at the store answers first is the store's
\* choice, and it can choose differently for the next select
Reorder ==
  /\ Len(dbPlayers) = 2
  /\ dbPlayers' = <<dbPlayers[2], dbPlayers[1]>>
  /\ UNCHANGED <<dbGame, dbMoves, local, selectedTransport, availableMoves,
                 calls, started, fetches>>

NextRoster ==
  \/ NextReliable
  \/ Reorder

SpecRoster == InitRoster /\ [][NextRoster]_vars

\* ------------------------------------------------- a game being joined
\* the game as its creator finds it: Mr. X alone in the roster
InitLobby ==
  /\ dbGame = [status |-> "waiting", current_turn |-> 0, mr_x_player |-> "uA"]
  /\ dbPlayers = <<InitPlayers[1]>>
  /\ dbMoves = << >>
  /\ game = [c \in Clients |-> null]
  /\ players = [c \in Clients |-> << >>]
  /\ currentPlayer = [c \in Clients |-> null]
  /\ moves = [c \in Clients |-> << >>]
  /\ selectedTransport = [c \in Clients |-> noTransport]
  /\ availableMoves = [c \in Clients |-> << >>]
  /\ calls = [s \in Slots |-> Idle]
  /\ started = 0
  /\ fetches = [c \in Clients |-> NoFetches]

\* the detective joins: its players row is inserted (Tables.players.Insert)
Join ==
  /\ Len(dbPlayers) = 1
  /\ dbPlayers' = Append(dbPlayers, InitPlayers[2])
  /\ UNCHANGED <<dbGame, dbMoves, local, selectedTransport, availableMoves,
                 calls, started, fetches>>

NextLobby ==
  \/ NextReliable
  \/ \E c \in Clients : startGame(c, FALSE)
  \/ Join

SpecLobby == InitLobby /\ [][NextLobby]_vars

\* ------------------------------------------------- a game being left
\* the players rows of the game are deleted (every player has left, or the
\* game is removed by its owner)
RosterDeleted ==
  /\ dbPlayers # << >>
  /\ dbPlayers' = << >>
  /\ UNCHANGED <<dbGame, dbMoves, local, selectedTransport, availableMoves,
                 calls, started, fetches>>

NextEmptied ==
  \/ NextReliable
  \/ RosterDeleted

SpecEmptied == Init /\ [][NextEmptied]_vars

\* ------------------------------------------------- a second ticket
\* the game with Mr. X holding one taxi ticket more
InitSecondTicket ==
  /\ dbGame = [status |-> "waiting", current_turn |-> 0, mr_x_player |-> "uA"]
  /\ dbPlayers = <<[InitPlayers[1] EXCEPT !.taxi_tickets = InitTickets + 1],
                   InitPlayers[2]>>
  /\ dbMoves = << >>
  /\ game = [c \in Clients |-> null]
  /\ players = [c \in Clients |-> << >>]
  /\ currentPlayer = [c \in Clients |-> null]
  /\ moves = [c \in Clients |-> << >>]
  /\ selectedTransport = [c \in Clients |-> noTransport]
  /\ availableMoves = [c \in Clients |-> << >>]
  /\ calls = [s \in Slots |-> Idle]
  /\ started = 0
  /\ fetches = [c \in Clients |-> NoFetches]

SpecSecondTicket == InitSecondTicket /\ [][NextReliable]_vars

\* ------------------------------------------------- a game that ends
\* the game ends: status goes from in_progress to finished
GameFinished ==
  /\ dbGame.status = "in_progress"
  /\ dbGame' = [dbGame EXCEPT !.status = "finished"]
  /\ UNCHANGED <<dbPlayers, dbMoves, local, selectedTransport, availableMoves,
                 calls, started, fetches>>

NextFinished ==
  \/ NextReliable
  \/ GameFinished

SpecFinished == Init /\ [][NextFinished]_vars

\* =====================================================================
\* The properties of the store and of handleMove
\* =====================================================================
\* the stored players row with this id, and the row it was when the run began
StoredRow(id) == dbPlayers[CHOOSE k \in 1..Len(dbPlayers) : dbPlayers[k].id = id]
InitialRow(id) == InitPlayers[CHOOSE k \in 1..Len(InitPlayers) : InitPlayers[k].id = id]

\* the stored roster and the player whose turn the stored counter says it is
StoredRoster == OrderByCreatedAt(dbPlayers)
RosterAt(turn) == StoredRoster[(turn % Len(StoredRoster)) + 1]

\* the invocation in slot i has read the game, or is between its first and
\* its last write
HasGame(i) == calls[i].pc \in {"fetchPlayers", "insertMove", "updatePlayer",
                               "updateGame", "refresh"}
Committing(i) == calls[i].pc \in {"insertMove", "updatePlayer", "updateGame"}
NoCommitInFlight == \A i \in Slots : ~Committing(i)

\* the moves rows of a player made with a transport kind
MovesOf(id, transport) ==
  {k \in 1..Len(dbMoves) : dbMoves[k].player_id = id /\ dbMoves[k].transport = transport}

\* C1: the turn_numbers of the stored moves are exactly 0, 1, ..., k, each once
C1_TurnNumbersConsecutive ==
  /\ \A k, l \in 1..Len(dbMoves) : k # l => dbMoves[k].turn_number # dbMoves[l].turn_number
  /\ {dbMoves[k].turn_number : k \in 1..Len(dbMoves)} = 0..(Len(dbMoves) - 1)

\* C2: of two invocations for the same player that read the same current_turn,
\* when one has advanced the turn the other has written nothing
C2_OneCommitPerTurn ==
  \A i, j \in Slots :
    (/\ i # j
     /\ HasGame(i) /\ HasGame(j)
     /\ calls[i].currentPlayer.id = calls[j].currentPlayer.id
     /\ calls[i].latestGame.current_turn = calls[j].latestGame.current_turn
     /\ "game" \in calls[i].wrote)
    => calls[j].wrote = {}

\* C3: when no invocation is between its writes, current_turn is the number
\* of moves rows
C3_TurnCountsMoves == NoCommitInFlight => dbGame.current_turn = Len(dbMoves)

\* C4: an invocation that leaves its last write has made all three writes
\* when it succeeded and none when it ended in the catch
C4_AllOrNone ==
  [][\A i \in Slots :
       At(i, "updateGame") =>
         /\ calls'[i].pc = "idle" => calls[i].wrote = {}
         /\ calls'[i].pc = "refresh" => calls'[i].wrote = {"move", "player", "game"}]_vars

\* C5: when no invocation is between its writes, each stored ticket count is
\* the player's first count less its moves rows of that kind
C5_DebitedOncePerMove ==
  NoCommitInFlight =>
    \A k \in 1..Len(dbPlayers), t \in TransportType :
      dbPlayers[k][ticketField(t)] =
        InitialRow(dbPlayers[k].id)[ticketField(t)]
          - Cardinality(MovesOf(dbPlayers[k].id, t))

\* C6: no stored ticket count is negative
C6_TicketsNonNegative ==
  \A k \in 1..Len(dbPlayers), t \in TransportType : dbPlayers[k][ticketField(t)] >= 0

\* C6 witness: a player has two moves rows of a kind and a stored count of 0,
\* the second move made from a copy that still showed the ticket
C6_Witness ==
  \E k \in 1..Len(dbPlayers), t \in TransportType :
    /\ Cardinality(MovesOf(dbPlayers[k].id, t)) > InitialRow(dbPlayers[k].id)[ticketField(t)]
    /\ dbPlayers[k][ticketField(t)] = 0

\* the invocation in slot i is at its turn check and its player is not the
\* one the stored roster and the game it read make active
TurnCheckOfInactive(i) ==
  /\ At(i, "fetchPlayers")
  /\ StoredRoster # << >>
  /\ calls[i].currentPlayer.id # RosterAt(calls[i].latestGame.current_turn).id

\* C7: the turn check of a player who is not active ends the invocation,
\* writes no row and leaves the selection as it is
C7_NotYourTurnRejects ==
  [][\A i \in Slots :
       (TurnCheckOfInactive(i) /\ HM_FetchPlayers(i, TRUE)) =>
         /\ calls'[i] = Idle
         /\ store' = store
         /\ selectedTransport' = selectedTransport]_vars

\* C7 witness: such a turn check is reached, with the selection cleared
C7_Witness ==
  \E i \in Slots :
    /\ TurnCheckOfInactive(i)
    /\ selectedTransport[calls[i].client] = noTransport

\* C8: the ticket check of the active player whose stored count of the chosen
\* kind is 0 ends the invocation, writes no row and restores the selection
C8_InsufficientTicketsRejects ==
  [][\A i \in Slots :
       (/\ At(i, "fetchPlayers")
        /\ HM_FetchPlayers(i, TRUE)
        /\ ~TurnCheckOfInactive(i)
        /\ StoredRow(calls[i].currentPlayer.id)[ticketField(calls[i].tempTransport)] = 0)
       => /\ calls'[i] = Idle
          /\ store' = store
          /\ selectedTransport'[calls[i].client] = calls[i].tempTransport]_vars

\* C9: an inserted moves row carries the stored current_turn and the mover's
\* stored current_position of the moment it is inserted
C9_MoveMatchesStore ==
  [][Len(dbMoves') = Len(dbMoves) + 1 =>
       LET m == dbMoves'[Len(dbMoves')]
       IN /\ m.turn_number = dbGame.current_turn
          /\ m.from_position = StoredRow(m.player_id).current_position]_vars

C11_TurnZeroNotRevealed ==
  \A k \in 1..Len(dbMoves) :
    (StoredRow(dbMoves[k].player_id).role = "mr_x" /\ dbMoves[k].turn_number = 0)
      => ~dbMoves[k].revealed

SameRows(c) ==
  {players[c][k] : k \in 1..Len(players[c])} = {dbPlayers[k] : k \in 1..Len(dbPlayers)}

\* C13: for a client whose copy holds the rows of the store, the active player
\* of its render path at the current_turn of its game copy is the active
\* player the re-validation of handleMove computes from the store's answer
\* at the same current_turn
C13_SameActivePlayer ==
  \A c \in Clients :
    (Rendered(c) /\ players[c] # << >> /\ SameRows(c))
      => activePlayerOf(c).id = RosterAt(game[c].current_turn).id

\* C14: status leaves waiting only for in_progress, only in a startGame of
\* the client of mr_x_player and only with two or more stored players rows;
\* a startGame with fewer stored rows, or whose request fails, leaves the
\* games row as it is
C14_StartOnlyByMrXWithTwo ==
  [][/\ (dbGame.status = "waiting" /\ dbGame'.status # "waiting") =>
          /\ dbGame' = [dbGame EXCEPT !.status = "in_progress"]
          /\ Len(dbPlayers) >= 2
          /\ \E c \in Clients :
               startGame(c, TRUE) /\ userId(c) = dbGame.mr_x_player
     /\ \A c \in Clients, ok \in BOOLEAN :
          (startGame(c, ok) /\ (Len(dbPlayers) < 2 \/ ~ok)) => dbGame' = dbGame]_vars

\* C14 witness: the game is started with two stored rows while the client of
\* the detective still holds the copy with Mr. X alone
C14_Witness ==
  /\ dbGame.status = "in_progress"
  /\ Len(dbPlayers) = 2
  /\ \E c \in Clients :
       game[c] # null /\ game[c].status = "waiting" /\ Len(players[c]) = 1

\* the invocation in slot i is a handleMove that has not returned
InHandleMove(i) == calls[i].pc \in {"fetchGame", "fetchPlayers", "insertMove",
                                    "updatePlayer", "updateGame", "refresh"}

\* C15: no client has two handleMove invocations in flight
C15_OneInFlightPerClient ==
  \A i, j \in Slots :
    (i # j /\ InHandleMove(i) /\ InHandleMove(j)) => calls[i].client # calls[j].client

\* the snapshot client c holds
Snapshot(c) ==
  [game |-> game[c], players |-> players[c],
   currentPlayer |-> currentPlayer[c], moves |-> moves[c]]

\* client c holds what a fetchGameData of the store as it is has set
Fresh(c) == Snapshot(c) = Fetched(c)

\* the state the render of client c derives from its snapshot
Derived(c) ==
  [activePlayer |-> activePlayerOf(c), isMyTurn |-> isMyTurn(c), showMrX |-> showMrX(c)]

\* a fetchGameData of client c runs to its end in this step
FetchRuns(c) ==
  \/ Refresh(c, TRUE, TRUE, TRUE)
  \/ \E i \in Slots :
       At(i, "refresh") /\ Call(i).client = c /\ HM_Refresh(i, TRUE, TRUE, TRUE)

C17_EmptyRosterFatal ==
  [][\A i \in Slots :
       (At(i, "fetchPlayers") /\ dbPlayers = << >> /\ HM_FetchPlayers(i, TRUE))
         => /\ calls'[i] = Idle
            /\ store' = store
            /\ selectedTransport'[calls[i].client] = noTransport]_vars

\* C18: every moves row with turn_number t is of the player at index
\* t mod n of the stored roster, and the rows in the order of their commit
\* are of the players in roster order, cyclically
C18_MovesInRosterOrder ==
  /\ \A k \in 1..Len(dbMoves) :
       dbMoves[k].player_id = RosterAt(dbMoves[k].turn_number).id
  /\ \A k \in 1..Len(dbMoves) : dbMoves[k].player_id = RosterAt(k - 1).id

\* the stations of a sequence of stations
Range(seq) == {seq[k] : k \in 1..Len(seq)}

\* C19: the to_position of every moves row is a candidate of the row's
\* transport kind from the row's from_position
C19_MoveWithinCandidates ==
  \A k \in 1..Len(dbMoves) :
    dbMoves[k].to_position
      \in Range(Candidates(dbMoves[k].from_position, dbMoves[k].transport))

\* C20: from some moment on every client holds the store as it is
C20_EventuallyFresh == <>[](\A c \in Clients : Fresh(c))

\* C21: a client with a transport selected holds as availableMoves the
\* candidates of that kind from the current_position of its currentPlayer
C21_CandidatesFollowSelection ==
  \A c \in Clients :
    (selectedTransport[c] # noTransport /\ currentPlayer[c] # null)
      => availableMoves[c] =
           Candidates(currentPlayer[c].current_position, selectedTransport[c])

\* C22: a handleMove whose re-fetch read a games row that is not in_progress
\* does not go on to its writes
C22_NoWriteUnlessInProgress ==
  \A i \in Slots :
    (HasGame(i) /\ calls[i].latestGame.status # "in_progress")
      => /\ calls[i].pc = "fetchPlayers"
         /\ calls[i].wrote = {}

====
